---- MODULE Spec2Model ----
(***************************************************************************)
(* Model of the bench_executor engine adapters BURP (burp.py) and          *)
(* MorphRDB (morphrdb.py): construction of an adapter, preparation of a    *)
(* run (argument list or generated config.properties), launch of the       *)
(* engine process and its supervision up to the return of execute().       *)
(*                                                                         *)
(* Text is a sequence of tokens; the concatenation of the tokens is the    *)
(* string.  The tokens "/", ":", " ", "=", "\n" and "[root]" are the only  *)
(* ones that carry structure; every other token is a run of characters     *)
(* holding none of them, and no '%' (configparser interpolation marker).   *)
(***************************************************************************)
EXTENDS Integers, Sequences, FiniteSets, TLC

(***************************************************************************)
(* Bounds and program constants                                            *)
(***************************************************************************)
MaxHours == 8

SecondsPerHour == 3600

TIMEOUT == 6 * SecondsPerHour

MorphTIMEOUT == 6 * SecondsPerHour

VERSION == <<"1.0.0">>

MorphVERSION == <<"3.12.5">>

Adapters == {"BURP", "MorphRDB"}

None == <<"None">>

NoFile == <<"<absent>">>

Cwd == <<"/", "work">>

(***************************************************************************)
(* Strings                                                                 *)
(***************************************************************************)
RECURSIVE Replace(_, _, _)
Replace(s, pat, rep) ==
    IF Len(s) < Len(pat) THEN s
    ELSE IF SubSeq(s, 1, Len(pat)) = pat
         THEN rep \o Replace(SubSeq(s, Len(pat) + 1, Len(s)), pat, rep)
         ELSE <<Head(s)>> \o Replace(Tail(s), pat, rep)

DigitChar == <<"0", "1", "2", "3", "4", "5", "6", "7", "8", "9">>

RECURSIVE Str(_)
Str(n) ==
    IF n < 10 THEN <<DigitChar[n + 1]>>
    ELSE Str(n \div 10) \o <<DigitChar[(n % 10) + 1]>>

RECURSIVE StrJoin(_, _)
StrJoin(sep, items) ==
    IF items = <<>> THEN <<>>
    ELSE IF Len(items) = 1 THEN items[1]
    ELSE items[1] \o sep \o StrJoin(sep, Tail(items))

RECURSIVE Split(_, _)
Split(s, sep) ==
    IF \A i \in 1..Len(s) : s[i] # sep THEN <<s>>
    ELSE LET i == CHOOSE k \in 1..Len(s) :
                      s[k] = sep /\ \A j \in 1..(k - 1) : s[j] # sep
         IN  <<SubSeq(s, 1, i - 1)>> \o Split(SubSeq(s, i + 1, Len(s)), sep)

(***************************************************************************)
(* os.path                                                                 *)
(***************************************************************************)
IsAbs(p) == p # <<>> /\ p[1] = "/"

Join(a, b) ==
    IF IsAbs(b) THEN b
    ELSE IF a = <<>> \/ a[Len(a)] = "/" THEN a \o b
    ELSE a \o <<"/">> \o b

Basename(p) ==
    LET parts == Split(p, "/") IN parts[Len(parts)]

RECURSIVE NormComps(_, _, _)
NormComps(comps, acc, abs) ==
    IF comps = <<>> THEN acc
    ELSE LET c == Head(comps) IN
         IF c = <<>> \/ c = <<".">> THEN NormComps(Tail(comps), acc, abs)
         ELSE IF c = <<"..">>
              THEN IF acc # <<>> /\ acc[Len(acc)] # <<"..">>
                   THEN NormComps(Tail(comps), SubSeq(acc, 1, Len(acc) - 1), abs)
                   ELSE IF abs THEN NormComps(Tail(comps), acc, abs)
                   ELSE NormComps(Tail(comps), Append(acc, c), abs)
              ELSE NormComps(Tail(comps), Append(acc, c), abs)

Normpath(p) ==
    LET comps == NormComps(Split(p, "/"), <<>>, IsAbs(p))
        body  == StrJoin(<<"/">>, comps)
    IN  IF IsAbs(p) THEN <<"/">> \o body
        ELSE IF body = <<>> THEN <<".">> ELSE body

Abspath(p) == Normpath(IF IsAbs(p) THEN p ELSE Join(Cwd, p))

(***************************************************************************)
(* os.makedirs on the set of existing host directories                     *)
(***************************************************************************)
Ancestors(p) ==
    {SubSeq(p, 1, i) : i \in {k \in 2..Len(p) : k = Len(p) \/ p[k + 1] = "/"}}

\* os.makedirs without exist_ok: an existing directory is an error.
MakedirsNoExistOk(fs, p) ==
    IF p \in fs THEN [err |-> "FileExistsError", fs |-> fs]
    ELSE [err |-> "none", fs |-> fs \cup Ancestors(p)]

\* os.makedirs(p, exist_ok=True)
Makedirs(fs, p) == [err |-> "none", fs |-> fs \cup Ancestors(p)]

(***************************************************************************)
(* State                                                                   *)
(***************************************************************************)
VARIABLES
    dirs,        \* host directories that exist
    files,       \* host files: path -> content
    inst,        \* adapter -> the adapter object last constructed
    ctor,        \* adapter -> its last constructor call
    pc,          \* "idle", or "running" while execute() is blocked in
                 \* run_and_wait_for_exit
    call,        \* the current (or last) execute_mapping call
    invocation,  \* argument list the current (or last) call handed to execute()
    proc,        \* engine process of the current (or last) call
    outcome      \* how the last finished call ended

vars == <<dirs, files, inst, ctor, pc, call, invocation, proc, outcome>>

NotBuilt ==
    [built |-> FALSE, data_path |-> <<>>, verbose |-> FALSE,
     expect_failure |-> FALSE, image |-> <<>>, name |-> <<>>, volumes |-> <<>>]

\* before: the content of config.properties when the call began;
\* expect_failure: what the adapter of the call was constructed with
NoCall == [adapter |-> "none", req |-> [serialization |-> "none"], total |-> 0,
           before |-> NoFile, expect_failure |-> FALSE]

NoProc == [launched |-> FALSE, running |-> FALSE, cmd |-> <<>>, elapsed |-> 0,
           timer |-> -1]

NoOutcome == [kind |-> "none", success |-> FALSE, timed_out |-> FALSE,
              error |-> "none", exit |-> -1]

FileRead(fs, path) == IF path \in DOMAIN fs THEN fs[path] ELSE NoFile

FileStore(fs, path, content) ==
    [p \in (DOMAIN fs) \cup {path} |-> IF p = path THEN content ELSE fs[p]]

(***************************************************************************)
(* Container (bench_executor.container): constructor, exit classification  *)
(* and forced termination at the deadline                                  *)
(***************************************************************************)
VolumeHost(v) == Split(v, ":")[1]

VolumeContainer(v) == Split(v, ":")[2]

ContainerDefaultExpectFailure == FALSE

ContainerInit(fs, image, name, volumes, expect_failure) ==
    LET bad == \/ \E i \in 1..Len(volumes) :
                     \/ Len(Split(volumes[i], ":")) # 2
                     \/ VolumeHost(volumes[i]) = <<>>
                     \/ ~IsAbs(VolumeContainer(volumes[i]))
               \/ \E i, j \in 1..Len(volumes) :
                     i # j /\ VolumeContainer(volumes[i]) = VolumeContainer(volumes[j])
    IN  IF bad THEN [err |-> "ConfigurationError", fs |-> fs]
        ELSE [err |-> "none",
              fs  |-> fs \cup UNION {Ancestors(VolumeHost(volumes[i])) :
                                        i \in 1..Len(volumes)}]

ContainerSuccess(expect_failure, exit) ==
    IF expect_failure THEN exit # 0 ELSE exit = 0

ContainerStopAtDeadline(p) == [p EXCEPT !.running = FALSE]

(***************************************************************************)
(* BURP.__init__ and MorphRDB.__init__                                     *)
(***************************************************************************)
BURPImage == <<"kgconstruct", "/", "burp", ":", "v">> \o VERSION

MorphImage == <<"blindreviewing", "/", "morph-rdb", ":", "v">> \o MorphVERSION

BURPVolumes(data_path) ==
    << data_path \o <<"/", "burp", ":", "/", "data">>,
       data_path \o <<"/", "shared", ":", "/", "data", "/", "shared">> >>

MorphVolumes(data_path) ==
    << data_path \o <<"/", "shared", ":", "/", "data", "/", "shared">>,
       data_path \o <<"/", "morphrdb", ":", "/", "data">> >>

\* expect_failure as the Container receives it (line 47), and as it would
\* without the keyword argument.
BURPExpectFailureDropped(expect_failure) == ContainerDefaultExpectFailure

BURPExpectFailure(expect_failure) == expect_failure

BURPInit(fs, data_path, verbose, expect_failure) ==
    LET dp  == Abspath(data_path)
        md  == Makedirs(fs, Join(dp, <<"burp">>))
        ef  == BURPExpectFailure(expect_failure)
        ci  == ContainerInit(md.fs, BURPImage, <<"BURP">>, BURPVolumes(dp), ef)
        err == IF md.err # "none" THEN md.err ELSE ci.err
    IN  [err  |-> err,
         fs   |-> IF md.err # "none" THEN fs ELSE ci.fs,
         self |-> [built |-> err = "none", data_path |-> dp, verbose |-> verbose,
                   expect_failure |-> ef, image |-> BURPImage,
                   name |-> <<"BURP">>, volumes |-> BURPVolumes(dp)]]

MorphInit(fs, data_path, verbose) ==
    LET dp  == Abspath(data_path)
        md  == Makedirs(fs, Join(dp, <<"morphrdb">>))
        ef  == ContainerDefaultExpectFailure
        ci  == ContainerInit(md.fs, MorphImage, <<"Morph-RDB">>, MorphVolumes(dp), ef)
        err == IF md.err # "none" THEN md.err ELSE ci.err
    IN  [err  |-> err,
         fs   |-> IF md.err # "none" THEN fs ELSE ci.fs,
         self |-> [built |-> err = "none", data_path |-> dp, verbose |-> FALSE,
                   expect_failure |-> ef, image |-> MorphImage,
                   name |-> <<"Morph-RDB">>, volumes |-> MorphVolumes(dp)]]

ConstructBURP(data_path, verbose, expect_failure) ==
    /\ pc = "idle"
    /\ LET r == BURPInit(dirs, data_path, verbose, expect_failure) IN
       /\ dirs' = r.fs
       /\ ctor' = [ctor EXCEPT !["BURP"] =
                      [called |-> TRUE, err |-> r.err, expect_failure |-> expect_failure,
                       existed |-> Join(Abspath(data_path), <<"burp">>) \in dirs]]
       /\ inst' = IF r.err = "none" THEN [inst EXCEPT !["BURP"] = r.self] ELSE inst
    /\ UNCHANGED <<files, pc, call, invocation, proc, outcome>>

ConstructMorphRDB(data_path, verbose) ==
    /\ pc = "idle"
    /\ LET r == MorphInit(dirs, data_path, verbose) IN
       /\ dirs' = r.fs
       /\ ctor' = [ctor EXCEPT !["MorphRDB"] =
                      [called |-> TRUE, err |-> r.err,
                       expect_failure |-> ContainerDefaultExpectFailure,
                       existed |-> Join(Abspath(data_path), <<"morphrdb">>) \in dirs]]
       /\ inst' = IF r.err = "none" THEN [inst EXCEPT !["MorphRDB"] = r.self] ELSE inst
    /\ UNCHANGED <<files, pc, call, invocation, proc, outcome>>

(***************************************************************************)
(* Engine command: heap sizing and command line                            *)
(***************************************************************************)
\* The JVM default the code comments on: a quarter of total memory.
MaxHeapQuarter(total) == total \div 4

\* int(total * (1/2)): exact for every total below 2^53
MaxHeap(total) == total \div 2

BURPCommand(verbose, total, arguments) ==
    LET max_heap == MaxHeap(total) IN
    <<"java", " ", "-Xmx">> \o Str(max_heap) \o <<" ", "-Xms">> \o Str(max_heap)
        \o <<" ", "-jar", " ", "burp", "/", "burp.jar">>
        \o (IF verbose THEN <<" ", "-vvvvvvvvvvvvv">> ELSE <<>>)
        \o <<" ">> \o StrJoin(<<" ">>, arguments)

MorphCommand(total) ==
    LET max_heap == MaxHeap(total) IN
    <<"java", " ", "-Xmx">> \o Str(max_heap) \o <<" ", "-Xms">> \o Str(max_heap)
        \o <<" ", "-cp", " ", ".", ":", "morph-rdb-dist-3.12.6.jar", ":",
             "dependency", "/", "*", " ",
             "es.upm.fi.dia.oeg.morph.r2rml.rdb.engine.MorphRDBRunner", " ",
             "/", "data", " ", "config.properties">>

\* The deadline armed around _execute_with_timeout: -1 when there is none.
BURPTimer == TIMEOUT

MorphTimer == -1

(***************************************************************************)
(* BURP.execute_mapping: argument list                                     *)
(***************************************************************************)
SharedDir == <<"/", "data", "/", "shared", "/">>

BURPArguments(mapping_file, output_file, base_iri) ==
    << <<"-m">>, Join(SharedDir, mapping_file) >>
        \o (IF output_file # None
            THEN << <<"-o">>, Join(SharedDir, output_file) >> ELSE <<>>)
        \o (IF base_iri # None THEN << <<"-b">>, base_iri >> ELSE <<>>)

(***************************************************************************)
(* MorphRDB.execute_mapping: config.properties                             *)
(***************************************************************************)
MorphSerialization(serialization) ==
    IF serialization = "nquads" THEN [err |-> "none", value |-> <<"N-QUADS">>]
    ELSE IF serialization = "ntriples" THEN [err |-> "none", value |-> <<"N-TRIPLE">>]
    ELSE [err |-> "NotImplementedError", value |-> <<>>]

\* Lines 78-80 with "or" in place of "and", and as written.
AnyCredentials(req) ==
    \/ req.rdb_username # None \/ req.rdb_password # None
    \/ req.rdb_host # None     \/ req.rdb_port # None
    \/ req.rdb_name # None     \/ req.rdb_type # None

AllCredentials(req) ==
    /\ req.rdb_username # None /\ req.rdb_password # None
    /\ req.rdb_host # None     /\ req.rdb_port # None
    /\ req.rdb_name # None     /\ req.rdb_type # None

MySQLDsn(req) ==
    <<"jdbc", ":", "mysql", ":", "/", "/">> \o req.rdb_host \o <<":">> \o req.rdb_port
        \o <<"/">> \o req.rdb_name
        \o <<"?allowPublicKeyRetrieval", "=", "true&useSSL", "=", "false">>

PostgreSQLDsn(req) ==
    <<"jdbc", ":", "postgresql", ":", "/", "/">> \o req.rdb_host \o <<":">>
        \o req.rdb_port \o <<"/">> \o req.rdb_name

\* The database section (lines 81-97) with the final else taken as
\* PostgreSQL, and as written: the options, or the ValueError.
MorphDatabaseLenient(req) ==
    LET head == << <<"database.name[0]", req.rdb_name>> >>
        tail == << <<"database.user[0]", req.rdb_username>>,
                   <<"database.pwd[0]", req.rdb_password>>,
                   <<"no_of_database", <<"1">>>> >>
    IN  IF req.rdb_type = <<"MySQL">>
        THEN [err |-> "none",
              options |-> head \o << <<"database.driver[0]", <<"com.mysql.jdbc.Driver">>>>,
                                     <<"database.type[0]", <<"mysql">>>>,
                                     <<"database.url[0]", MySQLDsn(req)>> >> \o tail]
        ELSE [err |-> "none",
              options |-> head \o << <<"database.driver[0]", <<"org.postgresql.Driver">>>>,
                                     <<"database.type[0]", <<"postgresql">>>>,
                                     <<"database.url[0]", PostgreSQLDsn(req)>> >> \o tail]

MorphDatabase(req) ==
    LET head == << <<"database.name[0]", req.rdb_name>> >>
        tail == << <<"database.user[0]", req.rdb_username>>,
                   <<"database.pwd[0]", req.rdb_password>>,
                   <<"no_of_database", <<"1">>>> >>
    IN  IF req.rdb_type = <<"MySQL">>
        THEN [err |-> "none",
              options |-> head \o << <<"database.driver[0]", <<"com.mysql.jdbc.Driver">>>>,
                                     <<"database.type[0]", <<"mysql">>>>,
                                     <<"database.url[0]", MySQLDsn(req)>> >> \o tail]
        ELSE IF req.rdb_type = <<"PostgreSQL">>
        THEN [err |-> "none",
              options |-> head \o << <<"database.driver[0]", <<"org.postgresql.Driver">>>>,
                                     <<"database.type[0]", <<"postgresql">>>>,
                                     <<"database.url[0]", PostgreSQLDsn(req)>> >> \o tail]
        ELSE [err |-> "ValueError", options |-> <<>>]

\* config['root']: the options in insertion order, each <<key, value>>.
MorphConfig(req, serialization) ==
    LET root == << <<"mappingdocument.file.path",
                     Join(<<"shared">>, Basename(req.mapping_file))>>,
                   <<"output.file.path",
                     Join(<<"shared">>, Basename(req.output_file))>>,
                   <<"output.rdflanguage", serialization>> >>
    IN  IF AllCredentials(req)
        THEN LET db == MorphDatabase(req) IN
             [err |-> db.err, options |-> root \o db.options]
        ELSE [err |-> "none", options |-> root]

\* ConfigParser.write(f, space_around_delimiters=False) of the one section.
OptionLine(option) ==
    <<option[1], "=">> \o Replace(option[2], <<"\n">>, <<"\n", "\t">>) \o <<"\n">>

RECURSIVE OptionLines(_)
OptionLines(options) ==
    IF options = <<>> THEN <<>>
    ELSE OptionLine(Head(options)) \o OptionLines(Tail(options))

ConfigWrite(options) == <<"[root]", "\n">> \o OptionLines(options) \o <<"\n">>

\* data.replace('[root]\n', '')
StripHeader(data) == Replace(data, <<"[root]", "\n">>, <<>>)

\* open(path, 'w') leaves an empty file; open(path, 'a') would keep the content.
OpenAppend(old) == IF old = NoFile THEN <<>> ELSE old

OpenWrite(old) == <<>>

WriteFile(old, data) == OpenWrite(old) \o data

\* Lines 102-111: write the section, read it back, rewrite it without header.
MorphWriteProperties(old, options) ==
    LET written == WriteFile(old, ConfigWrite(options))
        data    == written
    IN  WriteFile(written, StripHeader(data))

\* What the call leaves in config.properties when it fails after writing the
\* file instead of before.
MorphPrepareWriteFirst(req, old) ==
    LET ser == MorphSerialization(req.serialization)
        cfg == MorphConfig(req, ser.value)
    IN  IF ser.err # "none"
        THEN [err |-> ser.err, file |-> WriteFile(old, <<"[root]", "\n">>)]
        ELSE IF cfg.err # "none"
        THEN [err |-> cfg.err, file |-> WriteFile(old, <<"[root]", "\n">>)]
        ELSE [err |-> "none", file |-> MorphWriteProperties(old, cfg.options)]

MorphPrepare(req, old) ==
    LET ser == MorphSerialization(req.serialization) IN
    IF ser.err # "none" THEN [err |-> ser.err, file |-> old]
    ELSE LET cfg == MorphConfig(req, ser.value) IN
         IF cfg.err # "none" THEN [err |-> cfg.err, file |-> old]
         ELSE [err |-> "none", file |-> MorphWriteProperties(old, cfg.options)]

ConfigPath(data_path) ==
    Join(Join(data_path, <<"morphrdb">>), <<"config.properties">>)

(***************************************************************************)
(* execute_mapping, up to the launch of the engine process                 *)
(***************************************************************************)
NoInvocation == << <<"<none>">> >>

Launch(cmd, timer) ==
    [launched |-> TRUE, running |-> TRUE, cmd |-> cmd, elapsed |-> 0, timer |-> timer]

\* BURP.execute_mapping -> execute -> _execute_with_timeout, blocked in
\* run_and_wait_for_exit.  total is psutil.virtual_memory().total.
ExecuteMappingBURP(req, total) ==
    /\ pc = "idle"
    /\ inst["BURP"].built
    /\ LET arguments == BURPArguments(req.mapping_file, req.output_file, req.base_iri) IN
       /\ call' = [adapter |-> "BURP", req |-> req, total |-> total, before |-> NoFile,
                   expect_failure |-> ctor["BURP"].expect_failure]
       /\ invocation' = arguments
       /\ proc' = Launch(BURPCommand(inst["BURP"].verbose, total, arguments), BURPTimer)
    /\ pc' = "running"
    /\ outcome' = NoOutcome
    /\ UNCHANGED <<dirs, files, inst, ctor>>

\* MorphRDB.execute_mapping: raises, or writes config.properties and goes on
\* to execute([]) -> _execute_with_timeout, blocked in run_and_wait_for_exit.
ExecuteMappingMorphRDB(req, total) ==
    /\ pc = "idle"
    /\ inst["MorphRDB"].built
    /\ LET self == inst["MorphRDB"]
           path == ConfigPath(self.data_path)
           old  == FileRead(files, path)
           r    == MorphPrepare(req, old)
       IN  /\ call' = [adapter |-> "MorphRDB", req |-> req, total |-> total,
                       before |-> old,
                       expect_failure |-> ctor["MorphRDB"].expect_failure]
           /\ files' = IF r.file = old THEN files ELSE FileStore(files, path, r.file)
           /\ IF r.err # "none"
              THEN /\ outcome' = [NoOutcome EXCEPT !.kind = "raised", !.error = r.err]
                   /\ invocation' = NoInvocation
                   /\ proc' = NoProc
                   /\ pc' = "idle"
                   /\ UNCHANGED dirs
              ELSE /\ dirs' = Makedirs(dirs, Join(self.data_path, <<"morphrdb">>)).fs
                   /\ invocation' = <<>>
                   /\ proc' = Launch(MorphCommand(total), MorphTimer)
                   /\ pc' = "running"
                   /\ outcome' = NoOutcome
    /\ UNCHANGED <<inst, ctor>>

(***************************************************************************)
(* The engine process and the return of execute()                          *)
(***************************************************************************)
\* One more hour passes with the engine process still running.
Tick ==
    /\ pc = "running"
    /\ proc.running
    /\ proc.elapsed < MaxHours * SecondsPerHour
    /\ proc.timer = -1 \/ proc.elapsed < proc.timer
    /\ proc' = [proc EXCEPT !.elapsed = @ + SecondsPerHour]
    /\ UNCHANGED <<dirs, files, inst, ctor, pc, call, invocation, outcome>>

\* The engine process exits: run_and_wait_for_exit returns its
\* classification, which execute() and execute_mapping() return.
ProcessExit(exit) ==
    /\ pc = "running"
    /\ proc.running
    /\ proc.timer = -1 \/ proc.elapsed <= proc.timer
    /\ proc' = [proc EXCEPT !.running = FALSE]
    /\ outcome' = [kind |-> "returned",
                   success |-> ContainerSuccess(inst[call.adapter].expect_failure, exit),
                   timed_out |-> FALSE, error |-> "none", exit |-> exit]
    /\ pc' = "idle"
    /\ UNCHANGED <<dirs, files, inst, ctor, call, invocation>>

\* The armed deadline elapses: TimeoutError is raised in
\* _execute_with_timeout, execute() logs the warning and returns False.
Timeout ==
    /\ pc = "running"
    /\ proc.running
    /\ proc.timer # -1
    /\ proc.elapsed >= proc.timer
    /\ proc' = ContainerStopAtDeadline(proc)
    /\ outcome' = [kind |-> "returned", success |-> FALSE, timed_out |-> TRUE,
                   error |-> "TimeoutError", exit |-> -1]
    /\ pc' = "idle"
    /\ UNCHANGED <<dirs, files, inst, ctor, call, invocation>>

(***************************************************************************)
(* Inputs                                                                  *)
(***************************************************************************)
DataPath == <<"cases", "/", "c1">>

DataPaths == { DataPath, <<"/", "bench", "/", ".", "/", "c1", "/">>, <<>> }

MemTotal == 4096

MemTotals == {0, 1, 4095, MemTotal, 2147483647}

ExitCodes == {0, 1, 137}

Serializations == {"nquads", "ntriples", "turtle"}

BURPRequest ==
    [mapping_file |-> <<"mapping.rml.ttl">>, serialization |-> "nquads",
     output_file |-> <<"out.nq">>, base_iri |-> None]

BURPRequests ==
    [mapping_file  : { <<"mapping.rml.ttl">>, <<"/", "tmp", "/", "mapping.rml.ttl">> },
     serialization : {"nquads", "turtle"},
     output_file   : { None, <<"out.nq">> },
     base_iri      : { None, <<"http", ":", "/", "/", "example.com", "/">> }]

FullCredentials(type) ==
    [rdb_username |-> <<"root">>, rdb_password |-> <<"secret">>,
     rdb_host |-> <<"localhost">>, rdb_port |-> <<"3306">>, rdb_name |-> <<"db">>,
     rdb_type |-> type]

NoCredentials ==
    [rdb_username |-> None, rdb_password |-> None, rdb_host |-> None,
     rdb_port |-> None, rdb_name |-> None, rdb_type |-> None]

CredentialFields ==
    {"rdb_username", "rdb_password", "rdb_host", "rdb_port", "rdb_name", "rdb_type"}

DatabaseKinds == { <<"MySQL">>, <<"PostgreSQL">>, <<"Oracle">> }

\* All six fields; all but one; only the kind; none.
CredentialBundles ==
    {FullCredentials(t) : t \in DatabaseKinds}
        \cup {[FullCredentials(<<"MySQL">>) EXCEPT ![f] = None] : f \in CredentialFields}
        \cup {[FullCredentials(<<"Oracle">>) EXCEPT !.rdb_password = None]}
        \cup {[NoCredentials EXCEPT !.rdb_type = <<"Oracle">>]}
        \cup {NoCredentials}

MorphRequestOf(mapping_file, output_file, serialization, c) ==
    [mapping_file |-> mapping_file, output_file |-> output_file,
     serialization |-> serialization,
     rdb_username |-> c.rdb_username, rdb_password |-> c.rdb_password,
     rdb_host |-> c.rdb_host, rdb_port |-> c.rdb_port, rdb_name |-> c.rdb_name,
     rdb_type |-> c.rdb_type]

MorphRequest ==
    MorphRequestOf(<<"mapping.r2rml.ttl">>, <<"out.nq">>, "nquads", NoCredentials)

MorphRequests ==
    {MorphRequestOf(<<"mappings", "/", "mapping.r2rml.ttl">>, o, s, c) :
        o \in { <<"results", "/", "out.nq">>, <<"out", "[root]">> },
        s \in Serializations, c \in CredentialBundles}

(***************************************************************************)
(* Specifications                                                          *)
(***************************************************************************)
Init ==
    /\ dirs = {}
    /\ files = [p \in {} |-> NoFile]
    /\ inst = [a \in Adapters |-> NotBuilt]
    /\ ctor = [a \in Adapters |-> [called |-> FALSE, err |-> "none",
                                  expect_failure |-> FALSE, existed |-> FALSE]]
    /\ pc = "idle"
    /\ call = NoCall
    /\ invocation = NoInvocation
    /\ proc = NoProc
    /\ outcome = NoOutcome

\* Runs of both adapters and the supervision of the engine process over time.
Next ==
    \/ \E v \in BOOLEAN, ef \in BOOLEAN : ConstructBURP(DataPath, v, ef)
    \/ ConstructMorphRDB(DataPath, FALSE)
    \/ \E total \in MemTotals : ExecuteMappingBURP(BURPRequest, total)
    \/ \E total \in MemTotals : ExecuteMappingMorphRDB(MorphRequest, total)
    \/ Tick
    \/ \E exit \in ExitCodes : ProcessExit(exit)
    \/ Timeout

Spec == Init /\ [][Next]_vars

\* Preparation over the set of run requests; every engine process exits
\* within its first hour.
NextPrepare ==
    \/ ConstructBURP(DataPath, FALSE, FALSE)
    \/ ConstructMorphRDB(DataPath, FALSE)
    \/ \E req \in BURPRequests : ExecuteMappingBURP(req, MemTotal)
    \/ \E req \in MorphRequests : ExecuteMappingMorphRDB(req, MemTotal)
    \/ \E exit \in {0, 1} : ProcessExit(exit)

SpecPrepare == Init /\ [][NextPrepare]_vars

\* Construction over the set of data paths, each followed by runs.
NextConstruct ==
    \/ \E dp \in DataPaths, v \in BOOLEAN : ConstructBURP(dp, v, FALSE)
    \/ \E dp \in DataPaths, v \in BOOLEAN : ConstructMorphRDB(dp, v)
    \/ ExecuteMappingBURP(BURPRequest, MemTotal)
    \/ ExecuteMappingMorphRDB(MorphRequest, MemTotal)
    \/ ProcessExit(0)

SpecConstruct == Init /\ [][NextConstruct]_vars

(***************************************************************************)
(* Reading the artifacts back                                              *)
(***************************************************************************)
ConfigFile == FileRead(files, ConfigPath(inst["MorphRDB"].data_path))

LineSet(text) == LET ls == Split(text, "\n") IN {ls[i] : i \in 1..Len(ls)}

KeyOfLine(line) ==
    IF \E i \in 1..Len(line) : line[i] = "=" THEN Split(line, "=")[1] ELSE <<>>

DatabaseKeys ==
    { <<"database.name[0]">>, <<"database.driver[0]">>, <<"database.type[0]">>,
      <<"database.url[0]">>, <<"database.user[0]">>, <<"database.pwd[0]">>,
      <<"no_of_database">> }

HasDatabaseKeys(text) == \E l \in LineSet(text) : KeyOfLine(l) \in DatabaseKeys

DigitValue(d) == CHOOSE n \in 0..9 : DigitChar[n + 1] = d

RECURSIVE ParseInt(_)
ParseInt(digits) ==
    IF Len(digits) = 1 THEN DigitValue(digits[1])
    ELSE 10 * ParseInt(SubSeq(digits, 1, Len(digits) - 1)) + DigitValue(digits[Len(digits)])

\* The values of the command's words that start with the given flag.
FlagValues(cmd, flag) ==
    LET ws == Split(cmd, " ") IN
    {ParseInt(Tail(ws[i])) : i \in {k \in 1..Len(ws) : ws[k] # <<>> /\ ws[k][1] = flag}}

MissingCredential(req) == \E f \in CredentialFields : req[f] = None

MorphSupported == {"nquads", "ntriples"}

BURPSupported == {"nquads"}

Supported(adapter) == IF adapter = "BURP" THEN BURPSupported ELSE MorphSupported

RecognizedKinds == { <<"MySQL">>, <<"PostgreSQL">> }

Returned == pc = "idle" /\ outcome.kind = "returned"

Raised == pc = "idle" /\ outcome.kind = "raised"

(***************************************************************************)
(* Claims                                                                  *)
(***************************************************************************)

\* C1: for every adapter, a run whose engine process runs longer than
\* TIMEOUT returns timed-out with success = false, and the engine process
\* is no longer running once the call has returned.
TimeoutOf(adapter) == IF adapter = "BURP" THEN TIMEOUT ELSE MorphTIMEOUT

RanLongerThanTimeout ==
    /\ proc.launched
    /\ \/ proc.elapsed > TimeoutOf(call.adapter)
       \/ proc.elapsed = TimeoutOf(call.adapter) /\ outcome.exit = -1

C1_TimeoutEndsRun ==
    (Returned /\ RanLongerThanTimeout)
        => (outcome.timed_out /\ ~outcome.success /\ ~proc.running)

\* C2: for every adapter, execute_mapping with a serialization outside the
\* supported set raises at prepare-time and launches no engine process.
C2_UnsupportedSerializationRaises ==
    (call.adapter \in Adapters /\ call.req.serialization \notin Supported(call.adapter))
        => (Raised /\ ~proc.launched)

\* C3: MorphRDB.execute_mapping with a supported serialization: with a
\* credential field missing, config.properties has no database.* key and no
\* no_of_database key and the engine is launched; with all six fields the
\* launched run has the database keys and no_of_database=1.
C3_CredentialsAllOrNothing ==
    (call.adapter = "MorphRDB" /\ call.req.serialization \in MorphSupported)
        => IF MissingCredential(call.req)
           THEN /\ proc.launched
                /\ ~Raised
                /\ ~HasDatabaseKeys(ConfigFile)
           ELSE proc.launched =>
                   /\ <<"no_of_database", "=", "1">> \in LineSet(ConfigFile)
                   /\ \A k \in DatabaseKeys : \E l \in LineSet(ConfigFile) : KeyOfLine(l) = k

C3_Witness ==
    /\ call.adapter = "MorphRDB"
    /\ call.req.serialization \in MorphSupported
    /\ call.req.rdb_password = None
    /\ call.req.rdb_username # None
    /\ call.req.rdb_type = <<"MySQL">>
    /\ proc.launched
    /\ HasDatabaseKeys(call.before)
    /\ ~HasDatabaseKeys(ConfigFile)

\* C4 as stated: an unrecognized database kind fails the call and launches
\* no engine process, whatever the other credential fields are.
C4_UnknownKindAlwaysRaises ==
    (call.adapter = "MorphRDB" /\ call.req.rdb_type \notin RecognizedKinds \cup {None})
        => (Raised /\ ~proc.launched)

\* C4 amended: an unrecognized database kind fails the call and launches no
\* engine process when the other five credential fields are all given; when
\* one of them is missing the kind is not examined, and with a supported
\* serialization the engine is launched.
C4_UnknownKindRaisesWithAllFields ==
    (call.adapter = "MorphRDB" /\ call.req.rdb_type \notin RecognizedKinds \cup {None})
        => IF ~MissingCredential(call.req)
           THEN Raised /\ ~proc.launched
           ELSE call.req.serialization \in MorphSupported => (proc.launched /\ ~Raised)

C4_Witness ==
    /\ call.adapter = "MorphRDB"
    /\ call.req.serialization \in MorphSupported
    /\ call.req.rdb_type = <<"Oracle">>
    /\ ~MissingCredential(call.req)
    /\ Raised
    /\ outcome.error = "ValueError"

\* C5: from the launch of the engine by MorphRDB.execute_mapping until the
\* next call, config.properties has no [root] line and holds every
\* key=value line of the generated section unchanged.
C5_FlatPropertiesKeepEveryLine ==
    (call.adapter = "MorphRDB" /\ proc.launched)
        => LET options == MorphConfig(call.req,
                              MorphSerialization(call.req.serialization).value).options
           IN  /\ <<"[root]">> \notin LineSet(ConfigFile)
               /\ \A i \in 1..Len(options) :
                     <<options[i][1], "=">> \o options[i][2] \in LineSet(ConfigFile)

\* C6: after a successful execute_mapping the artifact depends on that
\* call's request alone: config.properties is what the request gives on an
\* absent file and holds database keys only if the request has all six
\* credential fields; the BURP argument list is that of the request.
C6_ArtifactOfLastRequestOnly ==
    /\ (call.adapter = "MorphRDB" /\ proc.launched)
          => /\ ConfigFile = MorphPrepare(call.req, NoFile).file
             /\ MissingCredential(call.req) => ~HasDatabaseKeys(ConfigFile)
    /\ (call.adapter = "BURP" /\ proc.launched)
          => invocation = BURPArguments(call.req.mapping_file, call.req.output_file,
                                        call.req.base_iri)

C6_Witness ==
    /\ call.adapter = "MorphRDB"
    /\ proc.launched
    /\ MissingCredential(call.req)
    /\ HasDatabaseKeys(call.before)
    /\ call.before # ConfigFile

\* C7: a run that exits within the timeout returns success = (exit # 0) for
\* an adapter constructed with expect_failure = true and success = (exit = 0)
\* for one constructed with expect_failure = false.
C7_ExpectFailureInvertsSuccess ==
    (Returned /\ ~outcome.timed_out /\ call.adapter \in Adapters)
        => outcome.success = IF call.expect_failure
                             THEN outcome.exit # 0 ELSE outcome.exit = 0

C7_Witness ==
    /\ Returned
    /\ call.adapter = "BURP"
    /\ call.expect_failure
    /\ outcome.exit = 1
    /\ outcome.success

\* C8: the engine command carries one -Xmx and one -Xms value, both equal
\* to half of total memory rounded down.
C8_HeapIsHalfOfTotal ==
    proc.launched =>
        LET hs == FlagValues(proc.cmd, "-Xmx") IN
        /\ Cardinality(hs) = 1
        /\ \A h \in hs : 2 * h <= call.total /\ call.total - 2 * h <= 1
        /\ FlagValues(proc.cmd, "-Xms") = hs

C8_Witness ==
    /\ proc.launched
    /\ call.adapter = "MorphRDB"
    /\ call.total = 4095
    /\ FlagValues(proc.cmd, "-Xmx") = {2047}

\* C9: no constructor call fails, also when the engine directory exists, and
\* a constructed adapter has exactly the two bindings
\* <data_path>/<engine-name>:/data and <data_path>/shared:/data/shared.
EngineDir(adapter) == IF adapter = "BURP" THEN <<"burp">> ELSE <<"morphrdb">>

C9_ConstructionIdempotentTwoBindings ==
    \A a \in Adapters :
        ctor[a].called =>
            /\ ctor[a].err = "none"
            /\ inst[a].built
            /\ LET vs == inst[a].volumes
                   dp == inst[a].data_path
               IN  /\ Len(vs) = 2
                   /\ \A i \in 1..2 : /\ Len(Split(vs[i], ":")) = 2
                                      /\ VolumeHost(vs[i]) # <<>>
                                      /\ VolumeContainer(vs[i]) # <<>>
                   /\ VolumeContainer(vs[1]) # VolumeContainer(vs[2])
                   /\ {<<VolumeHost(vs[i]), VolumeContainer(vs[i])>> : i \in 1..2}
                         = { <<dp \o <<"/">> \o EngineDir(a), <<"/", "data">> >>,
                             <<dp \o <<"/", "shared">>, <<"/", "data", "/", "shared">> >> }

C9_Witness ==
    /\ ctor["BURP"].called /\ ctor["BURP"].existed /\ ctor["BURP"].err = "none"
    /\ ctor["MorphRDB"].called /\ ctor["MorphRDB"].existed
    /\ inst["MorphRDB"].data_path = Cwd

\* C10: a MorphRDB.execute_mapping call that raises leaves config.properties
\* as it was when the call began, and launches nothing.
C10_FailedPrepareLeavesFile ==
    (call.adapter = "MorphRDB" /\ Raised)
        => (ConfigFile = call.before /\ ~proc.launched)

C10_Witness ==
    /\ call.adapter = "MorphRDB"
    /\ Raised
    /\ outcome.error = "ValueError"
    /\ call.before # NoFile
    /\ ConfigFile = call.before

====
